---- MODULE Spec2Model ----
(***************************************************************************)
(* VinylRigVote.sol as a state machine.  One action per external function  *)
(* of the contract; a transaction is atomic, so a revert leaves the        *)
(* storage as it was and only the outcome of the call is recorded.         *)
(*                                                                         *)
(* Ciphertext handles.  A handle admitted by FHE.fromExternal is a         *)
(* one-element sequence holding the input it was produced from; FHE.add    *)
(* yields the handle determined by its two operands, the concatenation.    *)
(* The uninitialised euint (bytes32(0)) is the empty sequence.             *)
(***************************************************************************)
EXTENDS Integers, Sequences, FiniteSets, TLC

\* ---- bounds of the model ----
MaxSessions == 1
MaxTime == 3
MaxVotes == 2
NumAddr == 2

\* ---- program constants ----
ZeroAddr == 0
NumTags == 5
MinSetups == 2
MaxSetups == 10
Mod16 == 65536
Mod8 == 256
MaxUint16 == 65535

Addr == 1..NumAddr
This == NumAddr + 1
Principals == Addr \cup {This}
SessionIds == 0..MaxSessions
SetupIdx == 0..2
TagIdx == 1..NumTags
SessionState == {"Draft", "Active", "Closed", "Revealed"}

\* what a voter may encrypt: the contract sees ciphertexts only, so any
\* 16-bit rating and any 8-bit tag value is admitted
Payloads ==
  << [rating |-> 8, tags |-> <<1, 0, 1, 1, 0>>],
     [rating |-> 65535, tags |-> <<255, 1, 1, 1, 0>>] >>
PayloadIds == 1..Len(Payloads)

\* deadlines a caller may pass: at, before and after the time of the call
Deadlines == 1..(MaxTime - 1)
NumSetupsChoices == {1, 2, 11}
NameLists == { <<"A", "B">>, <<"A">> }
Titles == {"t"}
Descriptions == {"d"}
TrackLists == {""}

VARIABLES now, sessionCounter, sessions, votes, sessionTotals, tagTotals,
          voteCounts, decryptionRequested, acl, last,
          block,       \* two submitVote transactions sent together, and their receipts
          \* the useFhevm hook of one mounted component
          parameters,          \* the props of the latest render
          deps,                \* the props the effect last ran with
          instance, status, error,   \* the three useState cells
          abortControllerRef,  \* the controller held by the ref (by the run that made it)
          aborted,             \* the controllers whose signal is aborted
          inits,               \* the initializations still awaiting their promise
          cleanup,             \* the cleanup the last effect run returned
          mounted, runs

store == <<sessionCounter, sessions, votes, sessionTotals, tagTotals,
           voteCounts, decryptionRequested, acl>>
hook == <<parameters, deps, instance, status, error, abortControllerRef,
          aborted, inits, cleanup, mounted, runs>>
vars == <<now, sessionCounter, sessions, votes, sessionTotals, tagTotals,
          voteCounts, decryptionRequested, acl, last, block, hook>>

\* ---- the cryptosystem, as the contract uses it ----
ZeroHandle == <<>>

\* the handle of slot k (0 = rating, 1..5 = tags) of the input a user encrypted
InputHandle(user, p, k) == << [owner |-> user, p |-> p, slot |-> k] >>

PlainOf(x) == IF x.slot = 0 THEN Payloads[x.p].rating ELSE Payloads[x.p].tags[x.slot]

RECURSIVE SumPlain(_)
SumPlain(h) == IF h = <<>> THEN 0 ELSE PlainOf(Head(h)) + SumPlain(Tail(h))

\* (variant: the sum drops its right operand)
FHEadd_KeepLeft(lhs, rhs) == lhs

FHEadd(lhs, rhs) == lhs \o rhs

Decrypt16(h) == SumPlain(h) % Mod16
Decrypt8(h) == SumPlain(h) % Mod8

isAllowed(h, who) == <<h, who>> \in acl

\* ---- storage defaults ----
NoSession == [organizer |-> ZeroAddr, title |-> "", description |-> "",
              deadline |-> 0, state |-> "Draft", numSetups |-> 0,
              equipmentNames |-> <<>>, trackList |-> ""]
NoVote == [rating |-> ZeroHandle, tags |-> [j \in TagIdx |-> ZeroHandle],
           submitted |-> FALSE]

\* no pair of transactions is waiting to be included
\* ---- the useFhevm hook: its inputs and its state at mount ----
\* an instance, an error or a controller is named by the effect run that
\* made it; Undefined stands for undefined and for a null ref
Undefined == 0
MaxRuns == 3

Providers == {"null", "p1"}
ChainIds == {"undefined", "31337", "other"}
Parameters == [provider : Providers, chainId : ChainIds, enabled : BOOLEAN]
NoDeps == [provider |-> "none", chainId |-> "none", enabled |-> FALSE]
\* no wallet connected yet
NotConnected == [provider |-> "null", chainId |-> "undefined", enabled |-> TRUE]

\* the first render: the useState and useRef initial values, no effect run yet
HookInit(p) ==
  /\ parameters = p
  /\ deps = NoDeps
  /\ instance = Undefined
  /\ status = "idle"
  /\ error = Undefined
  /\ abortControllerRef = Undefined
  /\ aborted = {}
  /\ inits = {}
  /\ cleanup = Undefined
  /\ mounted = TRUE
  /\ runs = 0

NoBlock == [txs |-> <<>>, receipts |-> <<>>, count0 |-> 0,
            totals0 |-> [k \in 0..NumTags |-> ZeroHandle]]

Init ==
  /\ now = 1
  /\ sessionCounter = 0
  /\ sessions = [s \in SessionIds |-> NoSession]
  /\ votes = [s \in SessionIds |-> [i \in SetupIdx |-> [a \in Addr |-> NoVote]]]
  /\ sessionTotals = [s \in SessionIds |-> [i \in SetupIdx |-> ZeroHandle]]
  /\ tagTotals = [s \in SessionIds |-> [i \in SetupIdx |-> [j \in TagIdx |-> ZeroHandle]]]
  /\ voteCounts = [s \in SessionIds |-> [i \in SetupIdx |-> 0]]
  /\ decryptionRequested = [s \in SessionIds |-> FALSE]
  /\ acl = {}
  /\ last = [op |-> "deploy", sender |-> ZeroAddr, sid |-> 0, err |-> "ok"]
  /\ block = NoBlock
  /\ HookInit(NotConnected)

Outcome(op, sender, sid, err) ==
  [op |-> op, sender |-> sender, sid |-> sid, err |-> err]

\* ---- modifiers ----
sessionExists(sid) == sessions[sid].organizer # ZeroAddr
\* (variant: the caller is not compared with the organizer)
onlyOrganizer_Anyone(sid, sender) == sessions[sid].organizer # ZeroAddr
onlyOrganizer(sid, sender) == sessions[sid].organizer = sender
\* (variant: every state after Active passes)
onlyClosedSession_NotActive(sid) == sessions[sid].state \in {"Closed", "Revealed"}
onlyClosedSession(sid) == sessions[sid].state = "Closed"

\* ---- createSession ----
\* (variant: a deadline equal to the time of the call passes)
CreateErr_DeadlineNotStrict(deadline, numSetups, names) ==
  IF ~(deadline >= now) THEN "Deadline must be in future"
  ELSE IF ~(numSetups >= MinSetups /\ numSetups <= MaxSetups) THEN "Number of setups must be 2-10"
  ELSE IF ~(Len(names) = numSetups) THEN "Equipment names length mismatch"
  ELSE "ok"

CreateErr(deadline, numSetups, names) ==
  IF ~(deadline > now) THEN "Deadline must be in future"
  ELSE IF ~(numSetups >= MinSetups /\ numSetups <= MaxSetups) THEN "Number of setups must be 2-10"
  ELSE IF ~(Len(names) = numSetups) THEN "Equipment names length mismatch"
  ELSE "ok"

\* (variant: ++_sessionCounter instead of _sessionCounter++)
NewSessionId_PreIncrement == sessionCounter + 1

\* uint256 sessionId = _sessionCounter++ (line 117): the id handed out
NewSessionId == sessionCounter

\* (variant: a new session starts in the Draft state)
createSession_StartsDraft(sender, title, description, deadline, numSetups, names, trackList) ==
  LET err == CreateErr(deadline, numSetups, names)
      sessionId == NewSessionId
  IN /\ err = "ok" => sessionCounter < MaxSessions
     /\ IF err = "ok"
        THEN /\ sessionCounter' = sessionCounter + 1
             /\ sessions' = [sessions EXCEPT ![sessionId] =
                   [organizer |-> sender, title |-> title, description |-> description,
                    deadline |-> deadline, state |-> "Draft", numSetups |-> numSetups,
                    equipmentNames |-> names, trackList |-> trackList]]
        ELSE UNCHANGED <<sessionCounter, sessions>>
     /\ last' = Outcome("createSession", sender, sessionId, err)
     /\ UNCHANGED <<now, votes, sessionTotals, tagTotals, voteCounts,
                    decryptionRequested, acl>>

createSession(sender, title, description, deadline, numSetups, names, trackList) ==
  LET err == CreateErr(deadline, numSetups, names)
      sessionId == NewSessionId
  IN /\ err = "ok" => sessionCounter < MaxSessions
     /\ IF err = "ok"
        THEN /\ sessionCounter' = sessionCounter + 1
             /\ sessions' = [sessions EXCEPT ![sessionId] =
                   [organizer |-> sender, title |-> title, description |-> description,
                    deadline |-> deadline, state |-> "Active", numSetups |-> numSetups,
                    equipmentNames |-> names, trackList |-> trackList]]
        ELSE UNCHANGED <<sessionCounter, sessions>>
     /\ last' = Outcome("createSession", sender, sessionId, err)
     /\ UNCHANGED <<now, votes, sessionTotals, tagTotals, voteCounts,
                    decryptionRequested, acl>>

\* ---- closeSession ----
\* (variant: the state check of line 211 left out)
CloseErr_NoStateCheck(sender, sid) ==
  IF ~sessionExists(sid) THEN "Session does not exist"
  ELSE IF ~onlyOrganizer(sid, sender) THEN "Not session organizer"
  ELSE "ok"

\* (variant: the deadline check that line 212 says was removed is still there)
CloseErr_DeadlineGate(sender, sid) ==
  IF ~sessionExists(sid) THEN "Session does not exist"
  ELSE IF ~onlyOrganizer(sid, sender) THEN "Not session organizer"
  ELSE IF ~(sessions[sid].state = "Active") THEN "Session not active"
  ELSE IF ~(now > sessions[sid].deadline) THEN "Deadline not reached"
  ELSE "ok"

CloseErr(sender, sid) ==
  IF ~sessionExists(sid) THEN "Session does not exist"
  ELSE IF ~onlyOrganizer(sid, sender) THEN "Not session organizer"
  ELSE IF ~(sessions[sid].state = "Active") THEN "Session not active"
  ELSE "ok"

\* (variant: closing also moves the deadline to the time of the call)
closeSession_StampsDeadline(sender, sid) ==
  LET err == CloseErr(sender, sid)
  IN /\ IF err = "ok"
        THEN sessions' = [sessions EXCEPT ![sid].state = "Closed", ![sid].deadline = now]
        ELSE UNCHANGED sessions
     /\ last' = Outcome("closeSession", sender, sid, err)
     /\ UNCHANGED <<now, sessionCounter, votes, sessionTotals, tagTotals, voteCounts,
                    decryptionRequested, acl>>

\* (variant: closing one session closes every Active session)
closeSession_ClosesAll(sender, sid) ==
  LET err == CloseErr(sender, sid)
  IN /\ IF err = "ok"
        THEN sessions' = [s \in SessionIds |->
                            IF sessions[s].state = "Active"
                            THEN [sessions[s] EXCEPT !.state = "Closed"]
                            ELSE sessions[s]]
        ELSE UNCHANGED sessions
     /\ last' = Outcome("closeSession", sender, sid, err)
     /\ UNCHANGED <<now, sessionCounter, votes, sessionTotals, tagTotals, voteCounts,
                    decryptionRequested, acl>>

closeSession(sender, sid) ==
  LET err == CloseErr(sender, sid)
  IN /\ IF err = "ok"
        THEN sessions' = [sessions EXCEPT ![sid].state = "Closed"]
        ELSE UNCHANGED sessions
     /\ last' = Outcome("closeSession", sender, sid, err)
     /\ UNCHANGED <<now, sessionCounter, votes, sessionTotals, tagTotals, voteCounts,
                    decryptionRequested, acl>>

\* ---- revealEquipment ----
RevealErr(sender, sid) ==
  IF ~sessionExists(sid) THEN "Session does not exist"
  ELSE IF ~onlyOrganizer(sid, sender) THEN "Not session organizer"
  ELSE IF ~(sessions[sid].state = "Closed") THEN "Session must be closed first"
  ELSE "ok"

revealEquipment(sender, sid) ==
  LET err == RevealErr(sender, sid)
  IN /\ IF err = "ok"
        THEN sessions' = [sessions EXCEPT ![sid].state = "Revealed"]
        ELSE UNCHANGED sessions
     /\ last' = Outcome("revealEquipment", sender, sid, err)
     /\ UNCHANGED <<now, sessionCounter, votes, sessionTotals, tagTotals, voteCounts,
                    decryptionRequested, acl>>

\* ---- submitVote ----
\* (variant: the deadline itself is already too late)
onlyActiveSessionErr_StrictDeadline(sid) ==
  IF ~(sessions[sid].state = "Active") THEN "Session not active"
  ELSE IF ~(now < sessions[sid].deadline) THEN "Voting deadline passed"
  ELSE "ok"

\* (variant: the state is not looked at, the deadline alone gates)
onlyActiveSessionErr_DeadlineOnly(sid) ==
  IF ~(now <= sessions[sid].deadline) THEN "Voting deadline passed"
  ELSE "ok"

onlyActiveSessionErr(sid) ==
  IF ~(sessions[sid].state = "Active") THEN "Session not active"
  ELSE IF ~(now <= sessions[sid].deadline) THEN "Voting deadline passed"
  ELSE "ok"

\* (variant: the duplicate check of line 148 left out)
SubmitErr_NoDuplicateCheck(sender, sid, idx, proofOk) ==
  IF ~sessionExists(sid) THEN "Session does not exist"
  ELSE IF onlyActiveSessionErr(sid) # "ok" THEN onlyActiveSessionErr(sid)
  ELSE IF ~(idx < sessions[sid].numSetups) THEN "Invalid setup index"
  ELSE IF ~proofOk THEN "Invalid input proof"
  ELSE "ok"

\* (variant: the index equal to the number of setups passes)
SubmitErr_IndexOffByOne(sender, sid, idx, proofOk) ==
  IF ~sessionExists(sid) THEN "Session does not exist"
  ELSE IF onlyActiveSessionErr(sid) # "ok" THEN onlyActiveSessionErr(sid)
  ELSE IF ~(idx <= sessions[sid].numSetups) THEN "Invalid setup index"
  ELSE IF votes[sid][idx][sender].submitted THEN "Already voted for this setup"
  ELSE IF ~proofOk THEN "Invalid input proof"
  ELSE IF voteCounts[sid][idx] # 0 /\ ~isAllowed(sessionTotals[sid][idx], This)
       THEN "Sender not allowed on operand"
  ELSE IF voteCounts[sid][idx] = MaxUint16 THEN "Arithmetic overflow"
  ELSE "ok"

SubmitErr(sender, sid, idx, proofOk) ==
  IF ~sessionExists(sid) THEN "Session does not exist"
  ELSE IF onlyActiveSessionErr(sid) # "ok" THEN onlyActiveSessionErr(sid)
  ELSE IF ~(idx < sessions[sid].numSetups) THEN "Invalid setup index"
  ELSE IF votes[sid][idx][sender].submitted THEN "Already voted for this setup"
  ELSE IF ~proofOk THEN "Invalid input proof"
  ELSE IF voteCounts[sid][idx] # 0 /\ ~isAllowed(sessionTotals[sid][idx], This)
       THEN "Sender not allowed on operand"
  ELSE IF voteCounts[sid][idx] = MaxUint16 THEN "Arithmetic overflow"
  ELSE "ok"

\* the six running totals after folding the ballot in (lines 164-183)
\* (variant: the running total is overwritten, not added to)
FoldRating_Overwrite(sid, idx, encryptedRating) == encryptedRating

FoldRating(sid, idx, encryptedRating) ==
  IF voteCounts[sid][idx] = 0 THEN encryptedRating
  ELSE FHEadd(sessionTotals[sid][idx], encryptedRating)

\* (variant: the first ballot's tags are not taken into the tag totals)
FoldTags_SkipFirst(sid, idx, encryptedTags) ==
  IF voteCounts[sid][idx] = 0 THEN [j \in TagIdx |-> ZeroHandle]
  ELSE [j \in TagIdx |-> FHEadd(tagTotals[sid][idx][j], encryptedTags[j])]

FoldTags(sid, idx, encryptedTags) ==
  IF voteCounts[sid][idx] = 0 THEN encryptedTags
  ELSE [j \in TagIdx |-> FHEadd(tagTotals[sid][idx][j], encryptedTags[j])]

\* (variant: the counter is raised in the add branch only)
NextVoteCount_AddBranchOnly(sid, idx) ==
  IF voteCounts[sid][idx] = 0 THEN 0 ELSE voteCounts[sid][idx] + 1

\* _voteCounts[sessionId][setupIndex]++ (line 185)
NextVoteCount(sid, idx) == voteCounts[sid][idx] + 1

\* (variant: the allowThis calls of lines 195-199 on the new totals left out)
SubmitGrants_BallotOnly(sender, encryptedRating, encryptedTags, newTotal, newTagTotals) ==
  {<<encryptedRating, sender>>, <<encryptedRating, This>>}
    \cup {<<encryptedTags[j], sender>> : j \in TagIdx}
    \cup {<<encryptedTags[j], This>> : j \in TagIdx}

\* (variant: the voter is given the new totals as well)
SubmitGrants_TotalsToVoter(sender, encryptedRating, encryptedTags, newTotal, newTagTotals) ==
  {<<encryptedRating, sender>>, <<encryptedRating, This>>}
    \cup {<<encryptedTags[j], sender>> : j \in TagIdx}
    \cup {<<encryptedTags[j], This>> : j \in TagIdx}
    \cup {<<newTotal, This>>, <<newTotal, sender>>}
    \cup {<<newTagTotals[j], This>> : j \in TagIdx}
    \cup {<<newTagTotals[j], sender>> : j \in TagIdx}

\* the grants of lines 187-199
SubmitGrants(sender, encryptedRating, encryptedTags, newTotal, newTagTotals) ==
  {<<encryptedRating, sender>>, <<encryptedRating, This>>}
    \cup {<<encryptedTags[j], sender>> : j \in TagIdx}
    \cup {<<encryptedTags[j], This>> : j \in TagIdx}
    \cup {<<newTotal, This>>}
    \cup {<<newTagTotals[j], This>> : j \in TagIdx}

TotalVotes ==
  Cardinality({t \in SessionIds \X SetupIdx \X Addr : votes[t[1]][t[2]][t[3]].submitted})

\* (variant: the ballot is marked submitted before the proof is verified and
\* the mark survives the failure)
submitVote_MarkBeforeProof(sender, sid, idx, p, proofOk) ==
  LET err == SubmitErr(sender, sid, idx, proofOk)
      encryptedRating == InputHandle(sender, p, 0)
      encryptedTags == [j \in TagIdx |-> InputHandle(sender, p, j)]
      newTotal == FoldRating(sid, idx, encryptedRating)
      newTagTotals == FoldTags(sid, idx, encryptedTags)
  IN /\ err = "ok" => TotalVotes < MaxVotes
     /\ IF err = "ok"
        THEN /\ votes' = [votes EXCEPT ![sid][idx][sender] =
                   [rating |-> encryptedRating, tags |-> encryptedTags, submitted |-> TRUE]]
             /\ sessionTotals' = [sessionTotals EXCEPT ![sid][idx] = newTotal]
             /\ tagTotals' = [tagTotals EXCEPT ![sid][idx] = newTagTotals]
             /\ voteCounts' = [voteCounts EXCEPT ![sid][idx] = NextVoteCount(sid, idx)]
             /\ acl' = acl \cup SubmitGrants(sender, encryptedRating, encryptedTags,
                                             newTotal, newTagTotals)
        ELSE /\ votes' = IF err = "Invalid input proof"
                         THEN [votes EXCEPT ![sid][idx][sender].submitted = TRUE]
                         ELSE votes
             /\ UNCHANGED <<sessionTotals, tagTotals, voteCounts, acl>>
     /\ last' = Outcome("submitVote", sender, sid, err)
     /\ UNCHANGED <<now, sessionCounter, sessions, decryptionRequested>>

submitVote(sender, sid, idx, p, proofOk) ==
  LET err == SubmitErr(sender, sid, idx, proofOk)
      encryptedRating == InputHandle(sender, p, 0)
      encryptedTags == [j \in TagIdx |-> InputHandle(sender, p, j)]
      newTotal == FoldRating(sid, idx, encryptedRating)
      newTagTotals == FoldTags(sid, idx, encryptedTags)
  IN /\ err = "ok" => TotalVotes < MaxVotes
     /\ IF err = "ok"
        THEN /\ votes' = [votes EXCEPT ![sid][idx][sender] =
                   [rating |-> encryptedRating, tags |-> encryptedTags, submitted |-> TRUE]]
             /\ sessionTotals' = [sessionTotals EXCEPT ![sid][idx] = newTotal]
             /\ tagTotals' = [tagTotals EXCEPT ![sid][idx] = newTagTotals]
             /\ voteCounts' = [voteCounts EXCEPT ![sid][idx] = NextVoteCount(sid, idx)]
             /\ acl' = acl \cup SubmitGrants(sender, encryptedRating, encryptedTags,
                                             newTotal, newTagTotals)
        ELSE UNCHANGED <<votes, sessionTotals, tagTotals, voteCounts, acl>>
     /\ last' = Outcome("submitVote", sender, sid, err)
     /\ UNCHANGED <<now, sessionCounter, sessions, decryptionRequested>>

\* ---- requestOrganizerDecryption ----
\* (variant: the one-shot check of line 241 left out)
RequestErr_NoOneShot(sender, sid) ==
  IF ~sessionExists(sid) THEN "Session does not exist"
  ELSE IF ~onlyOrganizer(sid, sender) THEN "Not session organizer"
  ELSE IF ~onlyClosedSession(sid) THEN "Session not closed"
  ELSE "ok"

\* (variant: a Revealed session passes the state check too)
RequestErr_RevealedToo(sender, sid) ==
  IF ~sessionExists(sid) THEN "Session does not exist"
  ELSE IF ~onlyOrganizer(sid, sender) THEN "Not session organizer"
  ELSE IF ~(sessions[sid].state \in {"Closed", "Revealed"}) THEN "Session not closed"
  ELSE IF decryptionRequested[sid] THEN "Decryption already requested"
  ELSE "ok"

\* (variant: the onlyClosedSession modifier left out)
RequestErr_NoStateCheck(sender, sid) ==
  IF ~sessionExists(sid) THEN "Session does not exist"
  ELSE IF ~onlyOrganizer(sid, sender) THEN "Not session organizer"
  ELSE IF decryptionRequested[sid] THEN "Decryption already requested"
  ELSE "ok"

RequestErr(sender, sid) ==
  IF ~sessionExists(sid) THEN "Session does not exist"
  ELSE IF ~onlyOrganizer(sid, sender) THEN "Not session organizer"
  ELSE IF ~onlyClosedSession(sid) THEN "Session not closed"
  ELSE IF decryptionRequested[sid] THEN "Decryption already requested"
  ELSE "ok"

\* (variant: the test of the vote count at line 245 left out)
RequestGrants_AllSetups(sender, sid) ==
  UNION { {<<sessionTotals[sid][i], sender>>, <<sessionTotals[sid][i], This>>}
            \cup {<<tagTotals[sid][i][j], sender>> : j \in TagIdx}
            \cup {<<tagTotals[sid][i][j], This>> : j \in TagIdx}
          : i \in {k \in SetupIdx : k < sessions[sid].numSetups} }

\* the grants of lines 244-255
RequestGrants(sender, sid) ==
  UNION { {<<sessionTotals[sid][i], sender>>, <<sessionTotals[sid][i], This>>}
            \cup {<<tagTotals[sid][i][j], sender>> : j \in TagIdx}
            \cup {<<tagTotals[sid][i][j], This>> : j \in TagIdx}
          : i \in {k \in SetupIdx : k < sessions[sid].numSetups /\ voteCounts[sid][k] > 0} }

requestOrganizerDecryption(sender, sid) ==
  LET err == RequestErr(sender, sid)
  IN /\ IF err = "ok"
        THEN /\ acl' = acl \cup RequestGrants(sender, sid)
             /\ decryptionRequested' = [decryptionRequested EXCEPT ![sid] = TRUE]
        ELSE UNCHANGED <<acl, decryptionRequested>>
     /\ last' = Outcome("requestOrganizerDecryption", sender, sid, err)
     /\ UNCHANGED <<now, sessionCounter, sessions, votes, sessionTotals, tagTotals,
                    voteCounts>>

\* ---- view functions: the revert reason, or "ok" and the value returned ----
Reverted(err) == [err |-> err, ret |-> <<>>]
Returned(ret) == [err |-> "ok", ret |-> ret]

\* (variant: the names are handed out in every state)
getEquipmentNames_NoGate(sender, sid) ==
  IF ~sessionExists(sid) THEN Reverted("Session does not exist")
  ELSE Returned(sessions[sid].equipmentNames)

getEquipmentNames(sender, sid) ==
  IF ~sessionExists(sid) THEN Reverted("Session does not exist")
  ELSE IF ~(sessions[sid].state = "Revealed") THEN Reverted("Equipment not yet revealed")
  ELSE Returned(sessions[sid].equipmentNames)

\* (variant: the organizer may read any ballot too)
getUserVote_OrganizerToo(sender, sid, idx, userAddress) ==
  IF ~sessionExists(sid) THEN Reverted("Session does not exist")
  ELSE IF ~(sender = userAddress \/ sender = sessions[sid].organizer)
       THEN Reverted("Can only view own votes")
  ELSE IF ~votes[sid][idx][userAddress].submitted THEN Reverted("No vote found")
  ELSE Returned(<<votes[sid][idx][userAddress].rating, votes[sid][idx][userAddress].tags>>)

\* (variant: the running totals of the setup are returned, not the ballot)
getUserVote_ReadsTotals(sender, sid, idx, userAddress) ==
  IF ~sessionExists(sid) THEN Reverted("Session does not exist")
  ELSE IF ~(sender = userAddress) THEN Reverted("Can only view own votes")
  ELSE IF ~votes[sid][idx][userAddress].submitted THEN Reverted("No vote found")
  ELSE Returned(<<sessionTotals[sid][idx], tagTotals[sid][idx]>>)

getUserVote(sender, sid, idx, userAddress) ==
  IF ~sessionExists(sid) THEN Reverted("Session does not exist")
  ELSE IF ~(sender = userAddress) THEN Reverted("Can only view own votes")
  ELSE IF ~votes[sid][idx][userAddress].submitted THEN Reverted("No vote found")
  ELSE Returned(<<votes[sid][idx][userAddress].rating, votes[sid][idx][userAddress].tags>>)

getSession(sender, sid) ==
  IF ~sessionExists(sid) THEN Reverted("Session does not exist")
  ELSE Returned(<<sessions[sid].organizer, sessions[sid].title, sessions[sid].description,
                  sessions[sid].deadline, sessions[sid].state, sessions[sid].numSetups,
                  sessions[sid].trackList>>)

getVoteCount(sender, sid, idx) ==
  IF ~sessionExists(sid) THEN Reverted("Session does not exist")
  ELSE Returned(voteCounts[sid][idx])

getSessionCount(sender) == Returned(sessionCounter)

\* (variant: true as soon as the setup has any ballot)
hasVoted_AnyVoter(sender, sid, idx, userAddress) ==
  Returned(voteCounts[sid][idx] > 0)

hasVoted(sender, sid, idx, userAddress) ==
  Returned(votes[sid][idx][userAddress].submitted)

isOrganizer(sender, sid, addr) ==
  IF ~sessionExists(sid) THEN Reverted("Session does not exist")
  ELSE Returned(sessions[sid].organizer = addr)

getSessionState(sender, sid) ==
  IF ~sessionExists(sid) THEN Reverted("Session does not exist")
  ELSE Returned(sessions[sid].state)

isDecryptionRequested(sender, sid) ==
  IF ~sessionExists(sid) THEN Reverted("Session does not exist")
  ELSE Returned(decryptionRequested[sid])

getSessionTotal(sender, sid, idx) ==
  IF ~sessionExists(sid) THEN Reverted("Session does not exist")
  ELSE IF ~(idx < sessions[sid].numSetups) THEN Reverted("Invalid setup index")
  ELSE Returned(sessionTotals[sid][idx])

getTagTotal(sender, sid, idx, tagIndex) ==
  IF ~sessionExists(sid) THEN Reverted("Session does not exist")
  ELSE IF ~(idx < sessions[sid].numSetups) THEN Reverted("Invalid setup index")
  ELSE IF ~(tagIndex < NumTags) THEN Reverted("Invalid tag index")
  ELSE Returned(tagTotals[sid][idx][tagIndex + 1])

\* ---- the results page (ResultsPageClient.tsx, useVinylRigVote.tsx) ----
\* the loop of getAggregatedHandles from setup i on: a setup without votes is
\* skipped, the others are pushed with their contract index
RECURSIVE CollectHandles(_, _, _)
CollectHandles(user, sid, i) ==
  IF i >= sessions[sid].numSetups THEN <<>>
  ELSE IF getVoteCount(user, sid, i).ret = 0 THEN CollectHandles(user, sid, i + 1)
  ELSE << [setupIndex |-> i,
           ratingHandle |-> getSessionTotal(user, sid, i).ret,
           tagHandles |-> [j \in TagIdx |-> getTagTotal(user, sid, i, j - 1).ret],
           voteCount |-> getVoteCount(user, sid, i).ret] >>
         \o CollectHandles(user, sid, i + 1)

\* a failing getSession is caught and yields the empty list
getAggregatedHandles(user, sid) ==
  IF getSession(user, sid).err # "ok" THEN <<>> ELSE CollectHandles(user, sid, 0)

\* instance.userDecrypt: the cleartexts, or failure when the user lacks
\* capability on one of the handles
userDecryptOk(user, aggregatedData) ==
  \A n \in 1..Len(aggregatedData) :
    /\ isAllowed(aggregatedData[n].ratingHandle, user)
    /\ \A j \in TagIdx : isAllowed(aggregatedData[n].tagHandles[j], user)

\* aggregatedData.map((setup, idx) => ...): idx is the position in the list
\* (counted from 0), and it is what the record gets as setupIndex
decryptResults(user, sid) ==
  LET aggregatedData == getAggregatedHandles(user, sid)
  IN IF Len(aggregatedData) = 0 \/ ~userDecryptOk(user, aggregatedData) THEN <<>>
     ELSE [n \in 1..Len(aggregatedData) |->
             [setupIndex |-> n - 1,
              ratingTotal |-> Decrypt16(aggregatedData[n].ratingHandle),
              totalVotes |-> aggregatedData[n].voteCount,
              tagScores |-> [j \in TagIdx |-> Decrypt8(aggregatedData[n].tagHandles[j])]]]

\* ---- block.timestamp ----
\* (variant: a timer closes the sessions whose deadline has passed)
Tick_AutoClose ==
  /\ now < MaxTime
  /\ now' = now + 1
  /\ sessions' = [s \in SessionIds |->
                    IF sessions[s].state = "Active" /\ now + 1 > sessions[s].deadline
                    THEN [sessions[s] EXCEPT !.state = "Closed"]
                    ELSE sessions[s]]
  /\ UNCHANGED <<sessionCounter, votes, sessionTotals, tagTotals, voteCounts,
                 decryptionRequested, acl, last>>

Tick ==
  /\ now < MaxTime
  /\ now' = now + 1
  /\ UNCHANGED <<store, last>>

\* one transaction at a time, none waiting
Next ==
  \/ \E sender \in Addr, t \in Titles, d \in Descriptions, dl \in Deadlines,
        n \in NumSetupsChoices, names \in NameLists, tl \in TrackLists :
        createSession(sender, t, d, dl, n, names, tl) /\ UNCHANGED <<block, hook>>
  \/ \E sender \in Addr, sid \in SessionIds :
        closeSession(sender, sid) /\ UNCHANGED <<block, hook>>
  \/ \E sender \in Addr, sid \in SessionIds :
        revealEquipment(sender, sid) /\ UNCHANGED <<block, hook>>
  \/ \E sender \in Addr, sid \in SessionIds, idx \in SetupIdx, p \in PayloadIds,
        proofOk \in BOOLEAN : submitVote(sender, sid, idx, p, proofOk) /\ UNCHANGED <<block, hook>>
  \/ \E sender \in Addr, sid \in SessionIds :
        requestOrganizerDecryption(sender, sid) /\ UNCHANGED <<block, hook>>
  \/ Tick /\ UNCHANGED <<block, hook>>

Spec == Init /\ [][Next]_vars

\* ---- the useFhevm hook (fhevm/useFhevm.tsx) ----
\* the component renders again with other props; the effect has not run yet
Render(p) ==
  /\ mounted
  /\ p # parameters
  /\ parameters' = p
  /\ UNCHANGED <<deps, instance, status, error, abortControllerRef, aborted,
                 inits, cleanup, mounted, runs>>

\* (variant: the cleanup does not abort its controller)
Cleanup_NoAbort(signals) == signals

\* the function an effect run returns: it aborts the controller of that run;
\* a run that stopped at the guard returns none
Cleanup(signals) ==
  IF cleanup # Undefined THEN signals \cup {cleanup} ELSE signals

\* the first lines of the effect: the controller held by the ref is aborted
AbortPrevious(signals) ==
  IF abortControllerRef # Undefined THEN signals \cup {abortControllerRef} ELSE signals

\* the guard of the effect
NotReady(p) == ~p.enabled \/ p.provider = "null" \/ p.chainId = "undefined"

\* the dependencies changed (or the component just mounted): the cleanup of
\* the previous run, then the effect body, in one commit
RunEffect ==
  /\ mounted
  /\ deps # parameters
  /\ runs < MaxRuns
  /\ deps' = parameters
  /\ runs' = runs + 1
  /\ aborted' = AbortPrevious(Cleanup(aborted))
  /\ instance' = Undefined
  /\ error' = Undefined
  /\ IF NotReady(parameters)
       THEN /\ status' = "idle"
            /\ abortControllerRef' = Undefined
            /\ cleanup' = Undefined
            /\ UNCHANGED inits
       ELSE /\ status' = "loading"
            /\ abortControllerRef' = runs + 1
            /\ cleanup' = runs + 1
            /\ inits' = inits \cup {runs + 1}
  /\ UNCHANGED <<parameters, mounted>>

\* signal.aborted, as the initialization of run g reads it after its awaits
Settled(g) == g \in aborted

\* the promise of the initialization of run g resolves: the instance is
\* created, and the three setters run in one batch unless the signal is aborted
ResolveInit(g) ==
  /\ g \in inits
  /\ inits' = inits \ {g}
  /\ IF Settled(g)
       THEN UNCHANGED <<instance, status, error>>
       ELSE /\ instance' = g
            /\ error' = Undefined
            /\ status' = "ready"
  /\ UNCHANGED <<parameters, deps, abortControllerRef, aborted, cleanup, mounted, runs>>

\* an await of the initialization of run g throws: the catch block
RejectInit(g) ==
  /\ g \in inits
  /\ inits' = inits \ {g}
  /\ IF Settled(g)
       THEN UNCHANGED <<instance, status, error>>
       ELSE /\ instance' = Undefined
            /\ error' = g
            /\ status' = "error"
  /\ UNCHANGED <<parameters, deps, abortControllerRef, aborted, cleanup, mounted, runs>>

\* the component unmounts: the cleanup of the last effect run
Unmount ==
  /\ mounted
  /\ mounted' = FALSE
  /\ aborted' = Cleanup(aborted)
  /\ cleanup' = Undefined
  /\ UNCHANGED <<parameters, deps, instance, status, error, abortControllerRef,
                 inits, runs>>

NextHook ==
  \/ \E p \in Parameters : Render(p) /\ UNCHANGED <<now, store, last, block>>
  \/ RunEffect /\ UNCHANGED <<now, store, last, block>>
  \/ \E g \in 1..MaxRuns : ResolveInit(g) /\ UNCHANGED <<now, store, last, block>>
  \/ \E g \in 1..MaxRuns : RejectInit(g) /\ UNCHANGED <<now, store, last, block>>
  \/ Unmount /\ UNCHANGED <<now, store, last, block>>

SpecHook == Init /\ [][NextHook]_vars

\* ---- two sessions side by side ----
\* the state after two successful createSession calls at time 1, by any two
\* organizers: every id of SessionIds is in use
InitTwo ==
  /\ now = 1
  /\ sessionCounter = MaxSessions + 1
  /\ \E org \in {f \in [SessionIds -> Addr] : f[0] = 1} :
       sessions = [s \in SessionIds |->
                     [organizer |-> org[s], title |-> "t", description |-> "d",
                      deadline |-> 2, state |-> "Active", numSetups |-> 2,
                      equipmentNames |-> <<"A", "B">>, trackList |-> ""]]
  /\ votes = [s \in SessionIds |-> [i \in SetupIdx |-> [a \in Addr |-> NoVote]]]
  /\ sessionTotals = [s \in SessionIds |-> [i \in SetupIdx |-> ZeroHandle]]
  /\ tagTotals = [s \in SessionIds |-> [i \in SetupIdx |-> [j \in TagIdx |-> ZeroHandle]]]
  /\ voteCounts = [s \in SessionIds |-> [i \in SetupIdx |-> 0]]
  /\ decryptionRequested = [s \in SessionIds |-> FALSE]
  /\ acl = {}
  /\ last = [op |-> "createSession", sender |-> sessions[MaxSessions].organizer,
             sid |-> MaxSessions, err |-> "ok"]
  /\ block = NoBlock
  /\ HookInit(NotConnected)

\* the calls that take a session id, and time
NextTwo ==
  \/ \E sender \in Addr, sid \in SessionIds :
        closeSession(sender, sid) /\ UNCHANGED <<block, hook>>
  \/ \E sender \in Addr, sid \in SessionIds :
        revealEquipment(sender, sid) /\ UNCHANGED <<block, hook>>
  \/ \E sender \in Addr, sid \in SessionIds, idx \in SetupIdx, proofOk \in BOOLEAN :
        submitVote(sender, sid, idx, 1, proofOk) /\ UNCHANGED <<block, hook>>
  \/ \E sender \in Addr, sid \in SessionIds :
        requestOrganizerDecryption(sender, sid) /\ UNCHANGED <<block, hook>>
  \/ Tick /\ UNCHANGED <<block, hook>>

SpecTwo == InitTwo /\ [][NextTwo]_vars

\* ---- two submitVote transactions sent at the same time ----
\* The chain serialises transactions: the two are included one after the
\* other, in either order, each as one atomic call of submitVote.
Pending == {k \in 1..Len(block.txs) : \A n \in 1..Len(block.receipts) : block.receipts[n].tx # k}

\* two callers send submitVote for the same (session, setup), each call being
\* one that would be accepted on its own
IssuePair(a, b, sid, idx, p1, p2) ==
  /\ block = NoBlock
  /\ a <= b
  /\ SubmitErr(a, sid, idx, TRUE) = "ok"
  /\ SubmitErr(b, sid, idx, TRUE) = "ok"
  /\ TotalVotes + (IF a = b THEN 1 ELSE 2) <= MaxVotes
  /\ block' = [txs |-> << [sender |-> a, sid |-> sid, idx |-> idx, p |-> p1],
                          [sender |-> b, sid |-> sid, idx |-> idx, p |-> p2] >>,
               receipts |-> <<>>,
               count0 |-> voteCounts[sid][idx],
               totals0 |-> [k \in 0..NumTags |->
                              IF k = 0 THEN sessionTotals[sid][idx]
                              ELSE tagTotals[sid][idx][k]]]
  /\ UNCHANGED <<now, store, last, hook>>

\* (variant: the call works on what it read when it was sent, the duplicate
\* check and the running totals included)
MineTx_StaleRead(k) ==
  /\ k \in Pending
  /\ LET tx == block.txs[k]
         encryptedRating == InputHandle(tx.sender, tx.p, 0)
         encryptedTags == [j \in TagIdx |-> InputHandle(tx.sender, tx.p, j)]
         newTotal == IF block.count0 = 0 THEN encryptedRating
                     ELSE FHEadd(block.totals0[0], encryptedRating)
         newTagTotals == [j \in TagIdx |->
                            IF block.count0 = 0 THEN encryptedTags[j]
                            ELSE FHEadd(block.totals0[j], encryptedTags[j])]
     IN /\ votes' = [votes EXCEPT ![tx.sid][tx.idx][tx.sender] =
                [rating |-> encryptedRating, tags |-> encryptedTags, submitted |-> TRUE]]
        /\ sessionTotals' = [sessionTotals EXCEPT ![tx.sid][tx.idx] = newTotal]
        /\ tagTotals' = [tagTotals EXCEPT ![tx.sid][tx.idx] = newTagTotals]
        /\ voteCounts' = [voteCounts EXCEPT ![tx.sid][tx.idx] = block.count0 + 1]
        /\ acl' = acl \cup SubmitGrants(tx.sender, encryptedRating, encryptedTags,
                                        newTotal, newTagTotals)
        /\ last' = Outcome("submitVote", tx.sender, tx.sid, "ok")
        /\ block' = [block EXCEPT !.receipts = Append(@, [tx |-> k, err |-> "ok"])]
        /\ UNCHANGED <<now, sessionCounter, sessions, decryptionRequested, hook>>

\* one of the waiting transactions is included: submitVote runs as a whole
\* on the storage as it is now
MineTx(k) ==
  /\ k \in Pending
  /\ LET tx == block.txs[k]
     IN /\ submitVote(tx.sender, tx.sid, tx.idx, tx.p, TRUE)
        /\ block' = [block EXCEPT !.receipts =
                       Append(@, [tx |-> k,
                                  err |-> SubmitErr(tx.sender, tx.sid, tx.idx, TRUE)])]
        /\ UNCHANGED hook

\* both receipts are in
Settle ==
  /\ block # NoBlock
  /\ Pending = {}
  /\ block' = NoBlock
  /\ UNCHANGED <<now, store, last, hook>>

NextBlock ==
  \/ block = NoBlock /\ Next
  \/ \E a \in Addr, b \in Addr, sid \in SessionIds, idx \in SetupIdx,
        p1 \in PayloadIds, p2 \in PayloadIds : IssuePair(a, b, sid, idx, p1, p2)
  \/ \E k \in 1..2 : MineTx(k)
  \/ Settle

SpecBlock == Init /\ [][NextBlock]_vars

(***************************************************************************)
(* Properties                                                              *)
(***************************************************************************)
DuplicateVote == "Already voted for this setup"
SessionNotActive == "Session not active"
DeadlinePassed == "Voting deadline passed"
NotOrganizer == "Not session organizer"
NotClosed == "Session not closed"
AlreadyRequested == "Decryption already requested"

\* C1: the state of an existing session changes only by a successful
\* closeSession (Active to Closed) or a successful revealEquipment (Closed to
\* Revealed); closeSession on a Closed or Revealed session and
\* revealEquipment on an Active or Revealed session fail and change nothing.
C1_LinearLifecycle ==
  [][\A s \in SessionIds : sessionExists(s) =>
        /\ sessions'[s].state # sessions[s].state =>
             \/ /\ sessions[s].state = "Active"
                /\ sessions'[s].state = "Closed"
                /\ closeSession(sessions[s].organizer, s)
                /\ last'.err = "ok"
             \/ /\ sessions[s].state = "Closed"
                /\ sessions'[s].state = "Revealed"
                /\ revealEquipment(sessions[s].organizer, s)
                /\ last'.err = "ok"
        /\ \A a \in Addr :
             /\ (closeSession(a, s) /\ sessions[s].state \in {"Closed", "Revealed"})
                  => (last'.err # "ok" /\ UNCHANGED store)
             /\ (revealEquipment(a, s) /\ sessions[s].state \in {"Active", "Revealed"})
                  => (last'.err # "ok" /\ UNCHANGED store)
    ]_vars

\* the organizer's closeSession on a Revealed session has just been refused
C1_Witness ==
  /\ last.op = "closeSession"
  /\ last.err = SessionNotActive
  /\ sessions[last.sid].state = "Revealed"
  /\ last.sender = sessions[last.sid].organizer

\* C2 (as stated): every submit for a triple that already has a ballot fails
\* with DuplicateVote and leaves the storage as it was.
C2_AlwaysDuplicateVote ==
  [][\A a \in Addr, s \in SessionIds, i \in SetupIdx :
        (/\ votes[s][i][a].submitted
         /\ last'.op = "submitVote" /\ last'.sender = a /\ last'.sid = s
         /\ \E p \in PayloadIds, ok \in BOOLEAN : submitVote(a, s, i, p, ok))
          => (last'.err = DuplicateVote /\ UNCHANGED store)
    ]_vars

\* C2 (amended): every submit for a triple that already has a ballot fails and
\* leaves the storage as it was; the failure is DuplicateVote while the
\* session is Active within its deadline, and otherwise the failure of the
\* session check (SessionNotActive, DeadlinePassed), which comes first.
C2_SecondSubmitFails ==
  [][\A a \in Addr, s \in SessionIds, i \in SetupIdx :
        (/\ votes[s][i][a].submitted
         /\ last'.op = "submitVote" /\ last'.sender = a /\ last'.sid = s
         /\ \E p \in PayloadIds, ok \in BOOLEAN : submitVote(a, s, i, p, ok))
          => /\ last'.err # "ok"
             /\ UNCHANGED store
             /\ (sessions[s].state = "Active" /\ now <= sessions[s].deadline)
                  => last'.err = DuplicateVote
             /\ sessions[s].state # "Active" => last'.err = SessionNotActive
             /\ (sessions[s].state = "Active" /\ now > sessions[s].deadline)
                  => last'.err = DeadlinePassed
    ]_vars

\* a second submit of a voter has just been refused as a duplicate
C2_Witness ==
  /\ last.op = "submitVote"
  /\ last.err = DuplicateVote
  /\ \E i \in SetupIdx : votes[last.sid][i][last.sender].submitted /\ voteCounts[last.sid][i] = 1

\* C3: the counter of a (session, setup) is the number of voters whose ballot
\* there is marked submitted; a successful submit raises that one counter by
\* one, and nothing else changes a counter.
C3_CounterIsBallotCount ==
  /\ [](\A s \in SessionIds, i \in SetupIdx :
          voteCounts[s][i] = Cardinality({a \in Addr : votes[s][i][a].submitted}))
  /\ [][\A s \in SessionIds, i \in SetupIdx :
          voteCounts'[s][i] # voteCounts[s][i] =>
            /\ voteCounts'[s][i] = voteCounts[s][i] + 1
            /\ last'.op = "submitVote" /\ last'.err = "ok" /\ last'.sid = s
            /\ \E p \in PayloadIds : submitVote(last'.sender, s, i, p, TRUE)
            /\ \A t \in SessionIds, j \in SetupIdx :
                 <<t, j>> # <<s, i>> => voteCounts'[t][j] = voteCounts[t][j]
    ]_vars

\* two ballots have been folded into one setup
C3_Witness ==
  /\ last.op = "submitVote" /\ last.err = "ok"
  /\ \E i \in SetupIdx : voteCounts[last.sid][i] = 2

\* the handle of slot k of a stored ballot, and of the running totals
BallotHandle(s, i, a, k) == IF k = 0 THEN votes[s][i][a].rating ELSE votes[s][i][a].tags[k]
TotalHandle(s, i, k) == IF k = 0 THEN sessionTotals[s][i] ELSE tagTotals[s][i][k]
Slots == 0..NumTags

\* the arithmetic sum of what the ballots of voters 1..n on (s, i) hold in slot k
RECURSIVE SumOfBallots(_, _, _, _)
SumOfBallots(s, i, k, n) ==
  IF n = 0 THEN 0
  ELSE (IF votes[s][i][n].submitted THEN SumPlain(BallotHandle(s, i, n, k)) ELSE 0)
         + SumOfBallots(s, i, k, n - 1)

\* C4: for every setup the rating-sum handle decrypts to the arithmetic sum of
\* the ratings of its ballots, and each tag-sum handle to the arithmetic sum
\* of the corresponding tag values.
C4_SumsAreArithmetic ==
  \A s \in SessionIds, i \in SetupIdx :
    voteCounts[s][i] > 0 =>
      /\ Decrypt16(sessionTotals[s][i]) = SumOfBallots(s, i, 0, NumAddr)
      /\ \A j \in TagIdx : Decrypt8(tagTotals[s][i][j]) = SumOfBallots(s, i, j, NumAddr)

\* C5: on the six handles of a submitted ballot only the voter and the
\* contract hold capability.
C5_BallotOnlyVoterAndContract ==
  \A s \in SessionIds, i \in SetupIdx, a \in Addr :
    votes[s][i][a].submitted =>
      \A k \in Slots, q \in Principals :
        isAllowed(BallotHandle(s, i, a, k), q) => q \in {a, This}

\* C6: an account holds capability on a current aggregate handle only if it is
\* the organizer of that session, the session is no longer Active and
\* requestOrganizerDecryption has succeeded for it.
C6_AggregateOnlyOrganizerAfterRequest ==
  \A s \in SessionIds, i \in SetupIdx, k \in Slots, q \in Addr :
    (voteCounts[s][i] > 0 /\ isAllowed(TotalHandle(s, i, k), q)) =>
      /\ q = sessions[s].organizer
      /\ sessions[s].state \in {"Closed", "Revealed"}
      /\ decryptionRequested[s]

\* C7 (as stated): once requested, every later requestOrganizerDecryption of
\* the organizer fails with AlreadyRequested.
C7_AlwaysAlreadyRequested ==
  [][\A s \in SessionIds :
        (/\ decryptionRequested[s]
         /\ last'.op = "requestOrganizerDecryption" /\ last'.sid = s
         /\ requestOrganizerDecryption(sessions[s].organizer, s))
          => last'.err = AlreadyRequested
    ]_vars

\* C7 (amended): requestOrganizerDecryption succeeds at most once per session:
\* the flag, once true, stays true; every later call of the organizer fails,
\* with AlreadyRequested while the session is Closed and with NotClosed once
\* it is Revealed; a failing call changes neither the flag nor any grant.
C7_OneShot ==
  [][\A s \in SessionIds :
        /\ decryptionRequested[s] => decryptionRequested'[s]
        /\ \A a \in Addr :
             (last'.op = "requestOrganizerDecryption" /\ requestOrganizerDecryption(a, s)) =>
               /\ last'.err # "ok" => UNCHANGED store
               /\ last'.err = "ok" => ~decryptionRequested[s]
               /\ (decryptionRequested[s] /\ a = sessions[s].organizer) =>
                    last'.err = (IF sessions[s].state = "Closed"
                                 THEN AlreadyRequested ELSE NotClosed)
    ]_vars

\* the organizer's second request has just been refused
C7_Witness ==
  /\ last.op = "requestOrganizerDecryption"
  /\ last.err = AlreadyRequested
  /\ last.sender = sessions[last.sid].organizer
  /\ decryptionRequested[last.sid]

\* C8: on an existing session, closeSession, revealEquipment and
\* requestOrganizerDecryption called by anyone but the organizer fail with
\* NotOrganizer and change nothing.
C8_NotOrganizer ==
  [][\A s \in SessionIds, a \in Addr :
        (/\ sessionExists(s) /\ a # sessions[s].organizer
         /\ \/ closeSession(a, s)
            \/ revealEquipment(a, s)
            \/ requestOrganizerDecryption(a, s))
          => (last'.err = NotOrganizer /\ UNCHANGED store)
    ]_vars

\* a request of somebody else on a Closed session with a ballot was refused
C8_Witness ==
  /\ last.op = "requestOrganizerDecryption"
  /\ last.err = NotOrganizer
  /\ sessions[last.sid].state = "Closed"
  /\ last.sender # sessions[last.sid].organizer
  /\ \E i \in SetupIdx : voteCounts[last.sid][i] > 0

\* C9: requestOrganizerDecryption succeeds only on a Closed session; called by
\* the organizer on an Active or a Revealed session it fails with NotClosed,
\* sets no flag and grants nothing.
C9_OnlyWhenClosed ==
  [][\A s \in SessionIds, a \in Addr :
        (last'.op = "requestOrganizerDecryption" /\ requestOrganizerDecryption(a, s)) =>
          /\ last'.err = "ok" => sessions[s].state = "Closed"
          /\ (a = sessions[s].organizer /\ sessions[s].state \in {"Active", "Revealed"})
               => (last'.err = NotClosed /\ UNCHANGED store)
    ]_vars

\* the organizer's request on an Active session with a ballot was refused
C9_Witness ==
  /\ last.op = "requestOrganizerDecryption"
  /\ last.err = NotClosed
  /\ last.sender = sessions[last.sid].organizer
  /\ sessions[last.sid].state = "Active"
  /\ \E i \in SetupIdx : voteCounts[last.sid][i] > 0

C11_DeadlineGate ==
  [][\A a \in Addr, s \in SessionIds, i \in SetupIdx :
        (/\ sessionExists(s) /\ sessions[s].state = "Active"
         /\ last'.op = "submitVote" /\ last'.sender = a /\ last'.sid = s
         /\ \E p \in PayloadIds, ok \in BOOLEAN : submitVote(a, s, i, p, ok))
          => /\ last'.err = "ok" => now <= sessions[s].deadline
             /\ now <= sessions[s].deadline => last'.err # DeadlinePassed
             /\ now > sessions[s].deadline
                  => (last'.err = DeadlinePassed /\ UNCHANGED store)
    ]_vars

\* a ballot has just been accepted at exactly the deadline
C11_Witness ==
  /\ last.op = "submitVote" /\ last.err = "ok"
  /\ now = sessions[last.sid].deadline

NotRevealed == "Equipment not yet revealed"
Forbidden == "Can only view own votes"
NotFound == "No vote found"
SessionNotFound == "Session does not exist"

\* C12: getEquipmentNames fails with NotRevealed for every caller while the
\* session is Active or Closed; once the session is Revealed it returns the
\* names passed to createSession, in their order (the stored names are those
\* passed at creation and never change).
C12_NamesOnlyWhenRevealed ==
  /\ [](\A s \in SessionIds, a \in Addr : sessionExists(s) =>
          /\ sessions[s].state \in {"Active", "Closed"}
               => getEquipmentNames(a, s) = Reverted(NotRevealed)
          /\ sessions[s].state = "Revealed"
               => getEquipmentNames(a, s) = Returned(sessions[s].equipmentNames))
  /\ [][/\ \A s \in SessionIds : sessionExists(s) =>
             sessions'[s].equipmentNames = sessions[s].equipmentNames
        /\ \A a \in Addr, t \in Titles, d \in Descriptions, dl \in Deadlines,
              n \in NumSetupsChoices, names \in NameLists, tl \in TrackLists :
             (/\ last'.op = "createSession" /\ last'.err = "ok"
              /\ createSession(a, t, d, dl, n, names, tl))
               => sessions'[last'.sid].equipmentNames = names
    ]_vars

\* the names are readable by somebody else than the organizer after the reveal
C12_Witness ==
  /\ last.op = "revealEquipment" /\ last.err = "ok"
  /\ \E a \in Addr : /\ a # sessions[last.sid].organizer
                     /\ getEquipmentNames(a, last.sid) = Returned(<<"A", "B">>)

\* C13: on an existing session getUserVote returns the ballot handles only to
\* the voter: for every other caller, the organizer included, it fails with
\* Forbidden in every state, with or without a ballot; for the voter it fails
\* with NotFound when the triple has no ballot and returns the stored handles
\* otherwise.
C13_OwnBallotOnly ==
  \A s \in SessionIds, i \in SetupIdx, v \in Addr, c \in Addr : sessionExists(s) =>
    /\ c # v => getUserVote(c, s, i, v) = Reverted(Forbidden)
    /\ (c = v /\ ~votes[s][i][v].submitted) => getUserVote(c, s, i, v) = Reverted(NotFound)
    /\ (c = v /\ votes[s][i][v].submitted)
         => getUserVote(c, s, i, v) = Returned(<<votes[s][i][v].rating, votes[s][i][v].tags>>)

\* the organizer, after closing and requesting decryption, is refused the
\* ballot of a voter
C13_Witness ==
  \E s \in SessionIds, i \in SetupIdx, v \in Addr :
    /\ votes[s][i][v].submitted
    /\ sessions[s].organizer # v
    /\ decryptionRequested[s]
    /\ getUserVote(sessions[s].organizer, s, i, v) = Reverted(Forbidden)

InvalidDeadline == "Deadline must be in future"
InvalidSetupCount == "Number of setups must be 2-10"
NameCountMismatch == "Equipment names length mismatch"
InvalidProof == "Invalid input proof"

\* C14: createSession fails with InvalidDeadline when the deadline is not
\* strictly after the time of the call (a deadline equal to now is refused),
\* with InvalidSetupCount when numSetups is outside 2..10 and with
\* NameCountMismatch when the number of names differs from numSetups (the
\* checks run in this order, so the first violated one names the failure);
\* a failed create allocates no session and leaves the counter as it was.
C14_CreateValidation ==
  [][\A a \in Addr, t \in Titles, d \in Descriptions, dl \in Deadlines,
        n \in NumSetupsChoices, names \in NameLists, tl \in TrackLists :
        (last'.op = "createSession" /\ createSession(a, t, d, dl, n, names, tl)) =>
          /\ dl <= now => last'.err = InvalidDeadline
          /\ (dl > now /\ (n < MinSetups \/ n > MaxSetups)) => last'.err = InvalidSetupCount
          /\ (dl > now /\ n >= MinSetups /\ n <= MaxSetups /\ Len(names) # n)
               => last'.err = NameCountMismatch
          /\ (dl <= now \/ n < MinSetups \/ n > MaxSetups \/ Len(names) # n)
               => last'.err # "ok"
          /\ last'.err # "ok" => (sessionCounter' = sessionCounter /\ UNCHANGED store)
    ]_vars

\* a create with a deadline equal to the time of the call was refused
C14_Witness ==
  /\ last.op = "createSession"
  /\ last.err = InvalidDeadline
  /\ now = 1
  /\ sessionCounter = 0

C16_FailureChangesNothing ==
  [][(last'.op \in {"createSession", "submitVote", "closeSession", "revealEquipment",
                    "requestOrganizerDecryption"} /\ last'.err # "ok")
       => UNCHANGED store
    ]_vars

\* a ballot with a rejected proof has just been refused on a setup that
\* already has a ballot
C16_Witness ==
  /\ last.op = "submitVote"
  /\ last.err = InvalidProof
  /\ \E i \in SetupIdx : voteCounts[last.sid][i] > 0

\* ---- the pair of block, once both receipts are in ----
PairDone == block # NoBlock /\ Len(block.receipts) = 2
SameVoter == block.txs[1].sender = block.txs[2].sender
PairSid == block.txs[1].sid
PairIdx == block.txs[1].idx
\* what transaction k put into slot j
TxPlain(k, j) == SumPlain(InputHandle(block.txs[k].sender, block.txs[k].p, j))
Records(h) == {h[n] : n \in 1..Len(h)}

C18_ConcurrentTwoVoters ==
  (PairDone /\ ~SameVoter) =>
    /\ block.receipts[1].err = "ok"
    /\ block.receipts[2].err = "ok"
    /\ voteCounts[PairSid][PairIdx] = block.count0 + 2
    /\ votes[PairSid][PairIdx][block.txs[1].sender].submitted
    /\ votes[PairSid][PairIdx][block.txs[2].sender].submitted
    /\ \A k \in Slots :
         /\ Len(TotalHandle(PairSid, PairIdx, k)) = Len(block.totals0[k]) + 2
         /\ Records(TotalHandle(PairSid, PairIdx, k))
              = Records(block.totals0[k])
                  \cup Records(InputHandle(block.txs[1].sender, block.txs[1].p, k))
                  \cup Records(InputHandle(block.txs[2].sender, block.txs[2].p, k))

\* both voters' calls are in, the one sent second first
C18_Witness ==
  /\ PairDone /\ ~SameVoter
  /\ block.receipts[1].tx = 2
  /\ voteCounts[PairSid][PairIdx] = 2
  /\ now = sessions[PairSid].deadline

\* C19: whichever order the submits of two voters on one setup are applied
\* in, the vote count is the same and the six running totals decrypt to the
\* same values: the rating-sum to what it was plus both ratings (as a uint16)
\* and each tag-sum to what it was plus both tag values (as a uint8).
C19_OrderIndependent ==
  (PairDone /\ ~SameVoter) =>
    /\ \A o \in {<<1, 2>>, <<2, 1>>} :
         (block.receipts[1].tx = o[1] /\ block.receipts[2].tx = o[2]) =>
           /\ voteCounts[PairSid][PairIdx] = block.count0 + 2
           /\ Decrypt16(sessionTotals[PairSid][PairIdx])
                = (Decrypt16(block.totals0[0]) + TxPlain(1, 0) + TxPlain(2, 0)) % Mod16
           /\ \A j \in TagIdx :
                Decrypt8(tagTotals[PairSid][PairIdx][j])
                  = (Decrypt8(block.totals0[j]) + TxPlain(1, j) + TxPlain(2, j)) % Mod8

\* two different ballots were applied in the order opposite to the one they
\* were sent in, and the rating-sum wrapped
C19_Witness ==
  /\ PairDone /\ ~SameVoter
  /\ block.receipts[1].tx = 2 /\ block.receipts[2].tx = 1
  /\ block.txs[1].p # block.txs[2].p
  /\ Decrypt16(sessionTotals[PairSid][PairIdx]) = 7

\* C20: every per-session operation called with a session id that no create
\* has returned fails with SessionNotFound: submitVote, closeSession,
\* revealEquipment, requestOrganizerDecryption, getUserVote, hasVoted, the
\* vote-count and aggregate-handle queries, isDecryptionRequested, and the
\* session metadata, state, organizer and equipment-name queries.
C20_UnknownIdFails ==
  \A s \in SessionIds :
    ~sessionExists(s) =>
      \A a \in Addr, u \in Addr, i \in SetupIdx :
        /\ \A ok \in BOOLEAN : SubmitErr(a, s, i, ok) = SessionNotFound
        /\ CloseErr(a, s) = SessionNotFound
        /\ RevealErr(a, s) = SessionNotFound
        /\ RequestErr(a, s) = SessionNotFound
        /\ getUserVote(a, s, i, u) = Reverted(SessionNotFound)
        /\ hasVoted(a, s, i, u) = Reverted(SessionNotFound)
        /\ getVoteCount(a, s, i) = Reverted(SessionNotFound)
        /\ getSessionTotal(a, s, i) = Reverted(SessionNotFound)
        /\ \A j \in TagIdx : getTagTotal(a, s, i, j - 1) = Reverted(SessionNotFound)
        /\ isDecryptionRequested(a, s) = Reverted(SessionNotFound)
        /\ getSession(a, s) = Reverted(SessionNotFound)
        /\ getSessionState(a, s) = Reverted(SessionNotFound)
        /\ isOrganizer(a, s, u) = Reverted(SessionNotFound)
        /\ getEquipmentNames(a, s) = Reverted(SessionNotFound)

\* C21: a successful requestOrganizerDecryption gives the organizer
\* capability on the 6 current aggregate handles of every setup of the
\* session with a vote count above 0, gives nothing on the handles of a setup
\* with vote count 0, gives nothing to anyone but the organizer and the
\* contract itself, and sets the requested flag.
C21_RequestGrantsAggregates ==
  [][\A a \in Addr, s \in SessionIds :
        (/\ last'.op = "requestOrganizerDecryption" /\ last'.err = "ok"
         /\ last'.sender = a /\ last'.sid = s
         /\ requestOrganizerDecryption(a, s))
          => /\ a = sessions[s].organizer
             /\ decryptionRequested'[s]
             /\ \A i \in SetupIdx, k \in Slots :
                  (i < sessions[s].numSetups /\ voteCounts[s][i] > 0)
                    => /\ <<TotalHandle(s, i, k), a>> \in acl'
                       /\ <<TotalHandle(s, i, k), This>> \in acl'
             /\ \A i \in SetupIdx, k \in Slots, q \in Principals :
                  voteCounts[s][i] = 0
                    => (<<TotalHandle(s, i, k), q>> \in acl'
                          => <<TotalHandle(s, i, k), q>> \in acl)
             /\ \A g \in acl' \ acl :
                  /\ g[2] \in {a, This}
                  /\ \E i \in SetupIdx, k \in Slots :
                       voteCounts[s][i] > 0 /\ g[1] = TotalHandle(s, i, k)
    ]_vars

\* the organizer has just been granted the totals of a session that has one
\* setup with ballots and one without
C21_Witness ==
  /\ last.op = "requestOrganizerDecryption" /\ last.err = "ok"
  /\ decryptionRequested[last.sid]
  /\ \E i \in SetupIdx : /\ voteCounts[last.sid][i] = 2
                         /\ isAllowed(sessionTotals[last.sid][i], last.sender)
  /\ \E i \in SetupIdx : i < sessions[last.sid].numSetups /\ voteCounts[last.sid][i] = 0

\* C22: the getUserVote of a voter returns, right after their successful
\* submitVote, the 6 handles of the inputs they sent, which decrypt to the
\* rating and the tags they encrypted; and whatever getUserVote returns to a
\* voter it returns again after every later step (further ballots, close,
\* requestOrganizerDecryption, reveal): a ballot is never changed or removed.
C22_BallotKept ==
  [][/\ \A a \in Addr, s \in SessionIds, i \in SetupIdx :
          getUserVote(a, s, i, a).err = "ok"
            => (getUserVote(a, s, i, a))' = getUserVote(a, s, i, a)
     /\ \A a \in Addr, s \in SessionIds, i \in SetupIdx, p \in PayloadIds :
          (/\ last'.op = "submitVote" /\ last'.err = "ok"
           /\ last'.sender = a /\ last'.sid = s
           /\ submitVote(a, s, i, p, TRUE))
            => /\ (getUserVote(a, s, i, a))'
                   = Returned(<<InputHandle(a, p, 0), [j \in TagIdx |-> InputHandle(a, p, j)]>>)
               /\ Decrypt16((getUserVote(a, s, i, a))'.ret[1]) = Payloads[p].rating
               /\ \A j \in TagIdx :
                    Decrypt8((getUserVote(a, s, i, a))'.ret[2][j]) = Payloads[p].tags[j]
    ]_vars

\* after another voter's ballot, close, the decryption request and reveal a
\* voter still reads their own rating 8 while the total of the setup is another
C22_Witness ==
  /\ last.op = "revealEquipment" /\ last.err = "ok"
  /\ decryptionRequested[last.sid]
  /\ \E a \in Addr, i \in SetupIdx :
       /\ voteCounts[last.sid][i] = 2
       /\ getUserVote(a, last.sid, i, a).err = "ok"
       /\ Decrypt16(getUserVote(a, last.sid, i, a).ret[1]) = 8
       /\ getUserVote(a, last.sid, i, a).ret[1] # sessionTotals[last.sid][i]

\* C23: the organizer, title, description, deadline, setup count, setup names
\* and track list of an existing session never change, whatever is called,
\* and an existing session stays in existence; the state is the only field of
\* a session that any step changes.
C23_MetadataFrozen ==
  [][\A s \in SessionIds :
        sessionExists(s) =>
          /\ (sessionExists(s))'
          /\ sessions'[s].organizer = sessions[s].organizer
          /\ sessions'[s].title = sessions[s].title
          /\ sessions'[s].description = sessions[s].description
          /\ sessions'[s].deadline = sessions[s].deadline
          /\ sessions'[s].numSetups = sessions[s].numSetups
          /\ sessions'[s].equipmentNames = sessions[s].equipmentNames
          /\ sessions'[s].trackList = sessions[s].trackList
          /\ sessions'[s] = [sessions[s] EXCEPT !.state = sessions'[s].state]
          /\ (getSession(last.sender, s))'.ret[1] = getSession(last.sender, s).ret[1]
    ]_vars

\* a session closed before its deadline and then revealed still has the
\* deadline, the count and the names it was created with
C23_Witness ==
  /\ last.op = "revealEquipment" /\ last.err = "ok"
  /\ sessions[last.sid].state = "Revealed"
  /\ sessions[last.sid].organizer = last.sender
  /\ now = 1
  /\ sessions[last.sid].deadline = 2
  /\ sessions[last.sid].numSetups = 2
  /\ sessions[last.sid].equipmentNames = <<"A", "B">>

C25_HasVoted ==
  /\ [](\A c \in Addr, s \in SessionIds, i \in SetupIdx, v \in Addr :
          /\ hasVoted(c, s, i, v) \in {Returned(TRUE), Returned(FALSE)}
          /\ hasVoted(c, s, i, v) = hasVoted(v, s, i, v))
  /\ [][\A s \in SessionIds, i \in SetupIdx, v \in Addr :
          /\ hasVoted(v, s, i, v) = Returned(TRUE) => (hasVoted(v, s, i, v))' = Returned(TRUE)
          /\ (hasVoted(v, s, i, v) = Returned(FALSE) /\ (hasVoted(v, s, i, v))' = Returned(TRUE))
               => /\ last'.op = "submitVote" /\ last'.err = "ok"
                  /\ last'.sender = v /\ last'.sid = s
                  /\ \E p \in PayloadIds : submitVote(v, s, i, p, TRUE)
          /\ \A p \in PayloadIds :
               (/\ last'.op = "submitVote" /\ last'.err = "ok"
                /\ last'.sender = v /\ last'.sid = s
                /\ submitVote(v, s, i, p, TRUE))
                 => (hasVoted(v, s, i, v))' = Returned(TRUE)
      ]_vars

\* on a revealed session one voter has a ballot on a setup and the other has
\* not, and each can read that of the other
C25_Witness ==
  \E s \in SessionIds, i \in SetupIdx, v \in Addr, w \in Addr :
    /\ v # w
    /\ sessions[s].state = "Revealed"
    /\ voteCounts[s][i] = 1
    /\ hasVoted(w, s, i, v) = Returned(TRUE)
    /\ hasVoted(v, s, i, w) = Returned(FALSE)

InvalidSetupIndex == "Invalid setup index"

\* C26: a submitVote on an Active session, not after the deadline, with a
\* setup index at or above the session's number of setups fails with
\* InvalidSetupIndex and changes nothing; so for an index outside
\* 0..numSetups-1 there is never a ballot, a submitted flag, a vote count
\* other than 0 or a running total other than the zero handle.
C26_SetupIndexInRange ==
  /\ [](\A s \in SessionIds, i \in SetupIdx :
          (sessionExists(s) /\ i >= sessions[s].numSetups) =>
            /\ voteCounts[s][i] = 0
            /\ \A k \in Slots : TotalHandle(s, i, k) = ZeroHandle
            /\ \A a \in Addr : votes[s][i][a] = NoVote)
  /\ [][\A a \in Addr, s \in SessionIds, i \in SetupIdx :
          (/\ sessionExists(s) /\ sessions[s].state = "Active"
           /\ now <= sessions[s].deadline
           /\ i >= sessions[s].numSetups
           /\ last'.op = "submitVote" /\ last'.sender = a /\ last'.sid = s
           /\ \E p \in PayloadIds, ok \in BOOLEAN : submitVote(a, s, i, p, ok))
            => (last'.err = InvalidSetupIndex /\ UNCHANGED store)
      ]_vars

\* a ballot for the index just above the last setup has been refused on a
\* session that has a ballot on its last setup
C26_Witness ==
  /\ last.op = "submitVote" /\ last.err = InvalidSetupIndex
  /\ sessions[last.sid].state = "Active"
  /\ voteCounts[last.sid][sessions[last.sid].numSetups - 1] = 1
  /\ voteCounts[last.sid][sessions[last.sid].numSetups] = 0

\* C27: for every (session, setup) the six running totals are the zero
\* handle exactly when the vote count is 0 (and getSessionTotal and
\* getTagTotal return them as stored); the first successful submitVote makes
\* them the six handles of that ballot itself, and every later one makes each
\* of them the FHE.add of the total before and the incoming handle.
C27_FoldShape ==
  /\ [](\A s \in SessionIds, i \in SetupIdx :
          /\ \A k \in Slots : (TotalHandle(s, i, k) = ZeroHandle) <=> (voteCounts[s][i] = 0)
          /\ (sessionExists(s) /\ i < sessions[s].numSetups) =>
               \A a \in Addr :
                 /\ getSessionTotal(a, s, i) = Returned(TotalHandle(s, i, 0))
                 /\ \A j \in TagIdx : getTagTotal(a, s, i, j - 1) = Returned(TotalHandle(s, i, j)))
  /\ [][\A a \in Addr, s \in SessionIds, i \in SetupIdx, p \in PayloadIds :
          (/\ last'.op = "submitVote" /\ last'.err = "ok"
           /\ last'.sender = a /\ last'.sid = s
           /\ submitVote(a, s, i, p, TRUE))
            => \A k \in Slots :
                 /\ voteCounts[s][i] = 0 =>
                      /\ (TotalHandle(s, i, k))' = (BallotHandle(s, i, a, k))'
                      /\ (TotalHandle(s, i, k))' = InputHandle(a, p, k)
                 /\ voteCounts[s][i] > 0 =>
                      (TotalHandle(s, i, k))' = FHEadd(TotalHandle(s, i, k), InputHandle(a, p, k))
      ]_vars

\* one setup holds the sum of two ballots, another the handles of its only
\* ballot
C27_Witness ==
  \E s \in SessionIds, i \in SetupIdx, a \in Addr, b \in Addr :
    /\ a # b
    /\ voteCounts[s][i] = 2
    /\ votes[s][i][a].submitted /\ votes[s][i][b].submitted
    /\ sessionTotals[s][i] = FHEadd(votes[s][i][a].rating, votes[s][i][b].rating)
    /\ \E i2 \in SetupIdx : i2 # i /\ voteCounts[s][i2] = 0 /\ sessionTotals[s][i2] = ZeroHandle

NotAllowed == "Sender not allowed on operand"

\* C28: on each of the six current running totals of every setup with a vote
\* count above 0 the contract itself holds capability, after the first fold
\* and after every add; so no submitVote ever fails because the contract may
\* not use a running total.
C28_ContractMayUseTotals ==
  /\ \A s \in SessionIds, i \in SetupIdx, k \in Slots :
       voteCounts[s][i] > 0 => isAllowed(TotalHandle(s, i, k), This)
  /\ last.err # NotAllowed

\* a total produced by an add, which is no ballot's handle, is usable by the
\* contract
C28_Witness ==
  \E s \in SessionIds, i \in SetupIdx :
    /\ voteCounts[s][i] = 2
    /\ \A k \in Slots :
         /\ isAllowed(TotalHandle(s, i, k), This)
         /\ \A a \in Addr : TotalHandle(s, i, k) # BallotHandle(s, i, a, k)

\* C29: once a session is Closed or Revealed no step changes any ballot,
\* submitted flag, vote count or running total of it; so after a successful
\* requestOrganizerDecryption the handles the organizer was given capability
\* on stay the current running totals of the session in every later state.
C29_FrozenAfterActive ==
  /\ [][\A s \in SessionIds :
          sessions[s].state \in {"Closed", "Revealed"} =>
            /\ votes'[s] = votes[s]
            /\ voteCounts'[s] = voteCounts[s]
            /\ sessionTotals'[s] = sessionTotals[s]
            /\ tagTotals'[s] = tagTotals[s]
      ]_vars
  /\ [](\A s \in SessionIds :
          decryptionRequested[s] =>
            /\ sessions[s].state \in {"Closed", "Revealed"}
            /\ \A i \in SetupIdx, k \in Slots :
                 voteCounts[s][i] > 0 =>
                   isAllowed(TotalHandle(s, i, k), sessions[s].organizer))

\* a ballot sent before the deadline to a session already closed, requested
\* and revealed has been refused, and the organizer still holds the totals
C29_Witness ==
  /\ last.op = "submitVote" /\ last.err = SessionNotActive
  /\ sessions[last.sid].state = "Revealed"
  /\ decryptionRequested[last.sid]
  /\ now <= sessions[last.sid].deadline
  /\ last.sender # sessions[last.sid].organizer
  /\ \E i \in SetupIdx :
       /\ voteCounts[last.sid][i] = 1
       /\ ~votes[last.sid][i][last.sender].submitted
       /\ isAllowed(sessionTotals[last.sid][i], sessions[last.sid].organizer)

\* C30 (as stated): on a session revealed before any successful
\* requestOrganizerDecryption, every later requestOrganizerDecryption fails
\* with NotClosed.
C30_AlwaysNotClosed ==
  [][\A a \in Addr, s \in SessionIds :
        (/\ sessions[s].state = "Revealed" /\ ~decryptionRequested[s]
         /\ last'.op = "requestOrganizerDecryption" /\ last'.sender = a /\ last'.sid = s
         /\ requestOrganizerDecryption(a, s))
          => last'.err = NotClosed
    ]_vars

\* C30: a session revealed before any successful requestOrganizerDecryption
\* stays Revealed with the requested flag false; every later
\* requestOrganizerDecryption for it fails and changes nothing, with NotClosed
\* when the organizer calls and with NotOrganizer when anyone else does; and
\* no step gives the organizer capability on a running total of the session.
C30_RevealedWithoutRequest ==
  [][\A s \in SessionIds :
        (sessions[s].state = "Revealed" /\ ~decryptionRequested[s]) =>
          /\ sessions'[s].state = "Revealed"
          /\ ~decryptionRequested'[s]
          /\ \A i \in SetupIdx, k \in Slots :
               <<TotalHandle(s, i, k), sessions[s].organizer>> \in acl'
                 => <<TotalHandle(s, i, k), sessions[s].organizer>> \in acl
          /\ \A a \in Addr :
               (/\ last'.op = "requestOrganizerDecryption"
                /\ last'.sender = a /\ last'.sid = s
                /\ requestOrganizerDecryption(a, s))
                 => /\ last'.err = (IF a = sessions[s].organizer THEN NotClosed
                                    ELSE NotOrganizer)
                    /\ UNCHANGED store
    ]_vars

\* the organizer's request on a session revealed without a request has been
\* refused, and the organizer holds nothing on the total of a setup with a
\* ballot of another voter
C30_Witness ==
  /\ last.op = "requestOrganizerDecryption" /\ last.err = NotClosed
  /\ last.sender = sessions[last.sid].organizer
  /\ sessions[last.sid].state = "Revealed"
  /\ ~decryptionRequested[last.sid]
  /\ \E i \in SetupIdx :
       /\ voteCounts[last.sid][i] > 0
       /\ ~isAllowed(sessionTotals[last.sid][i], last.sender)

\* C31: a session whose requested flag is true exists and is Closed or
\* Revealed; the flag is false for every Active session and for every id
\* never created, and isDecryptionRequested reports the flag of an existing
\* session to every caller.
C31_RequestedOnlyAfterClose ==
  \A s \in SessionIds :
    /\ decryptionRequested[s] => (sessionExists(s) /\ sessions[s].state \in {"Closed", "Revealed"})
    /\ sessionExists(s) =>
         \A a \in Addr : isDecryptionRequested(a, s) = Returned(decryptionRequested[s])
    /\ (sessionExists(s) /\ sessions[s].state = "Active") =>
         \A a \in Addr : isDecryptionRequested(a, s) = Returned(FALSE)

\* the flag of a session closed before its deadline has just been set, while
\* the flag of the id never created is false
C31_Witness ==
  /\ last.op = "requestOrganizerDecryption" /\ last.err = "ok"
  /\ sessions[last.sid].state = "Closed"
  /\ now <= sessions[last.sid].deadline
  /\ \A a \in Addr : isDecryptionRequested(a, last.sid) = Returned(TRUE)
  /\ \E s \in SessionIds : ~sessionExists(s) /\ ~decryptionRequested[s]

C33_NoTimer ==
  [][/\ now' # now => UNCHANGED store
     /\ \A s \in SessionIds :
          (sessionExists(s) /\ sessions[s].state = "Active" /\ now > sessions[s].deadline) =>
            /\ votes'[s] = votes[s] /\ voteCounts'[s] = voteCounts[s]
            /\ sessionTotals'[s] = sessionTotals[s] /\ tagTotals'[s] = tagTotals[s]
            /\ sessions'[s].state # "Active" =>
                 /\ closeSession(sessions[s].organizer, s)
                 /\ last'.err = "ok"
                 /\ sessions'[s].state = "Closed"
            /\ (/\ last'.op = "closeSession" /\ last'.sid = s
                /\ closeSession(sessions[s].organizer, s))
                 => (last'.err = "ok" /\ sessions'[s].state = "Closed")
            /\ \A a \in Addr, i \in SetupIdx :
                 (/\ last'.op = "submitVote" /\ last'.sender = a /\ last'.sid = s
                  /\ \E p \in PayloadIds, ok \in BOOLEAN : submitVote(a, s, i, p, ok))
                   => last'.err = DeadlinePassed
    ]_vars

\* the organizer has closed, after the deadline, a session that still held
\* its ballot
C33_Witness ==
  /\ last.op = "closeSession" /\ last.err = "ok"
  /\ now > sessions[last.sid].deadline
  /\ sessions[last.sid].state = "Closed"
  /\ \E i \in SetupIdx : voteCounts[last.sid][i] = 1

\* all that is stored for one session
SessionData(s) ==
  <<sessions[s], votes[s], voteCounts[s], sessionTotals[s], tagTotals[s],
    decryptionRequested[s]>>

\* C34: a call for session A (the session of the last call) leaves the
\* state, ballots, counts, running
\* totals and requested flag of every other session as they were; and a
\* successful submitVote for setup i leaves the ballots, count and totals of
\* every other setup of that session, and the ballots of every other voter
\* on setup i, as they were.
C34_SessionsIsolated ==
  [][/\ \A B \in SessionIds :
          B # last'.sid => (SessionData(B))' = SessionData(B)
     /\ \A A \in SessionIds, a \in Addr, i \in SetupIdx :
          (/\ last'.op = "submitVote" /\ last'.sender = a /\ last'.sid = A
           /\ \E p \in PayloadIds, ok \in BOOLEAN : submitVote(a, A, i, p, ok))
            => /\ \A B \in SessionIds : B # A => (SessionData(B))' = SessionData(B)
               /\ \A i2 \in SetupIdx :
                    i2 # i => /\ votes'[A][i2] = votes[A][i2]
                              /\ voteCounts'[A][i2] = voteCounts[A][i2]
                              /\ sessionTotals'[A][i2] = sessionTotals[A][i2]
                              /\ tagTotals'[A][i2] = tagTotals[A][i2]
               /\ \A b \in Addr : b # a => votes'[A][i][b] = votes[A][i][b]
               /\ sessions'[A] = sessions[A]
               /\ decryptionRequested'[A] = decryptionRequested[A]
    ]_vars

\* a ballot has just been accepted in one session while the other session,
\* of the same organizer, is closed and requested and holds another voter's
\* ballot on the same setup
C34_Witness ==
  \E A \in SessionIds, B \in SessionIds, i \in SetupIdx, b \in Addr :
    /\ A # B
    /\ last.op = "submitVote" /\ last.err = "ok" /\ last.sid = A
    /\ sessions[A].state = "Active"
    /\ sessions[A].organizer = sessions[B].organizer
    /\ sessions[B].state = "Closed" /\ decryptionRequested[B]
    /\ b # last.sender
    /\ votes[A][i][last.sender].submitted /\ ~votes[B][i][last.sender].submitted
    /\ votes[B][i][b].submitted /\ ~votes[A][i][b].submitted
    /\ voteCounts[A][i] = 1 /\ voteCounts[B][i] = 1

\* C35: every stored ballot holds a rating between 1 and 10 and five tag
\* values of 0 or 1, so the rating total of a setup with k ballots decrypts
\* to a value from k to 10k and each of its tag totals to a value from 0 to k.
C35_PlaintextsInRange ==
  \A s \in SessionIds, i \in SetupIdx :
    /\ \A a \in Addr :
         votes[s][i][a].submitted =>
           /\ Decrypt16(votes[s][i][a].rating) \in 1..10
           /\ \A j \in TagIdx : Decrypt8(votes[s][i][a].tags[j]) \in {0, 1}
    /\ voteCounts[s][i] > 0 =>
         /\ Decrypt16(sessionTotals[s][i]) \in voteCounts[s][i]..(10 * voteCounts[s][i])
         /\ \A j \in TagIdx : Decrypt8(tagTotals[s][i][j]) \in 0..voteCounts[s][i]

\* C36: every record the results page shows carries as setupIndex the
\* contract index of the setup whose totals it was decrypted from, also when
\* a setup without votes was skipped while the handles were collected.
C36_ResultKeepsSetupIndex ==
  \A s \in SessionIds, u \in Addr :
    \A n \in 1..Len(decryptResults(u, s)) :
      decryptResults(u, s)[n].setupIndex = getAggregatedHandles(u, s)[n].setupIndex

\* C37: in the useFhevm hook, whatever the order of prop changes and promise
\* completions, the initialization of an effect run sets none of instance,
\* status and error when it completes after a later effect run started or
\* after the unmount; and instance is defined only while status is "ready".
C37_StaleInitIsMute ==
  /\ [](instance # Undefined => status = "ready")
  /\ [][\A g \in inits :
          (g \notin inits' /\ (g < runs \/ ~mounted))
            => UNCHANGED <<instance, status, error>>]_vars

\* the initialization of an earlier run has completed while that of a later
\* run is still awaited, or after the unmount
C37_Witness ==
  \E g \in aborted :
    /\ g \notin inits
    /\ \/ g < runs /\ status = "loading" /\ runs \in inits
       \/ ~mounted /\ g = runs /\ status = "loading"

====
